---- MODULE Spec2Model ----
(***************************************************************************)
(* Model of the per-connection SSH session and forwarding multiplexer of   *)
(* go-sshd (server/server.go).  One Server value serves every connection;  *)
(* each connection has a channels dispatcher (HandleChannels) and a global *)
(* requests dispatcher (HandleGlobalRequests), and every handler goroutine *)
(* is a task whose position is kept in a pc field.                         *)
(***************************************************************************)
EXTENDS Integers, Sequences, FiniteSets, TLC

\* ---------------------------------------------------------------- bounds
\* global requests received over all connections
MaxGlobalReqs == 2
\* backend connections accepted by all forward listeners together
MaxAccepts == 1
\* channel-opens received over all connections
MaxChannels == 1
\* requests received on all session channels together
MaxSessionReqs == 2
\* chunks a spawned process writes to its stdout
MaxOutput == 1

\* ---------------------------------------------------------------- inputs
Conns == {"c1", "c2"}

\* nil net.Listener (the zero value LoadAndDelete returns when not loaded)
NoListener == 0

\* Wire payloads (RFC 4254 strings and uint32s).  The empty payload is too
\* short for every message of this program.
AddrPortPayload(addr, port) == [fmt |-> "AddrPort", addr |-> addr, port |-> port]
PathPayload(path) == [fmt |-> "Path", path |-> path]
EmptyPayload == [fmt |-> "Empty"]

TcpipForwardPayloads == {AddrPortPayload("127.0.0.1", 0)}
StreamlocalPayloads == {PathPayload("/tmp/t.sock")}

GlobalRequestInputs ==
    [Type : {"tcpip-forward", "cancel-tcpip-forward"},
     Payload : TcpipForwardPayloads \cup {EmptyPayload}, WantReply : {TRUE}]
    \cup
    [Type : {"streamlocal-forward@openssh.com", "cancel-streamlocal-forward@openssh.com"},
     Payload : StreamlocalPayloads \cup {EmptyPayload}, WantReply : {TRUE}]
    \cup
    [Type : {"keepalive@openssh.com"}, Payload : {EmptyPayload}, WantReply : BOOLEAN]

\* Commands are sequences of characters; "e" names a program the OS can
\* start, "n" one that does not exist.
ExecCommands == {<<>>, <<"e">>, <<"n">>, <<"'">>}
Executables == {<<"e">>}
CommandPayload(cmd) == [fmt |-> "Command", command |-> cmd]
NamePayload(name) == [fmt |-> "Name", name |-> name]
PtyReqPayload == [fmt |-> "PtyReq"]
DimsPayload == [fmt |-> "Dims"]
DirectTcpipPayload == [fmt |-> "DirectTcpip", addr |-> "127.0.0.1", port |-> 80]
DirectStreamlocalPayload == [fmt |-> "DirectStreamlocal", path |-> "/tmp/b.sock"]

SessionRequestInputs ==
    [Type : {"exec"},
     Payload : {CommandPayload(cmd) : cmd \in ExecCommands} \cup {EmptyPayload},
     WantReply : {TRUE}]
    \cup
    [Type : {"shell"}, Payload : {EmptyPayload, DimsPayload}, WantReply : {TRUE}]
    \cup
    [Type : {"pty-req"}, Payload : {PtyReqPayload, EmptyPayload}, WantReply : {TRUE}]
    \cup
    [Type : {"window-change"}, Payload : {DimsPayload, EmptyPayload}, WantReply : {FALSE}]
    \cup
    [Type : {"subsystem"},
     Payload : {NamePayload("sftp"), NamePayload("other"), EmptyPayload},
     WantReply : {TRUE}]
    \cup
    [Type : {"env"}, Payload : {EmptyPayload}, WantReply : BOOLEAN]

ChannelOpenInputs ==
    [Type : {"session"}, Extra : {EmptyPayload}]
    \cup
    [Type : {"direct-tcpip"}, Extra : {DirectTcpipPayload, EmptyPayload}]
    \cup
    [Type : {"direct-streamlocal@openssh.com"}, Extra : {DirectStreamlocalPayload, EmptyPayload}]
    \cup
    [Type : {"x11"}, Extra : {EmptyPayload}]

\* What the clients are going to send: either forwarding traffic, or
\* channel traffic, or a little of both.
\* What the clients are going to send: greqs[c] global requests and chans[c]
\* channel-opens on connection c, sreqs session requests and accepts backend
\* connections in all.  The two connections are served alike, so the
\* workloads give the larger share to c1.
Workload(g1, g2, accepts, ch1, ch2, sreqs) ==
    [greqs |-> [c1 |-> g1, c2 |-> g2], accepts |-> accepts,
     chans |-> [c1 |-> ch1, c2 |-> ch2], sreqs |-> sreqs]
ForwardWorkloads ==
    {Workload(MaxGlobalReqs, 0, MaxAccepts, 0, 0, 0),
     Workload(MaxGlobalReqs - 1, 1, MaxAccepts, 0, 0, 0)}
ChannelWorkloads ==
    {Workload(0, 0, 0, MaxChannels, 0, MaxSessionReqs)}
MixedWorkloads == {Workload(1, 0, 0, 1, 0, 1)}
Workloads == ForwardWorkloads \cup ChannelWorkloads \cup MixedWorkloads

\* process exit codes: 0, 1, and -1 (ExitCode() of a process killed by a signal)
ExitCodes == {0, 1, -1}

\* ---------------------------------------------------------------- state
VARIABLES
    workload,               \* what the clients send in this run
    perm,                   \* Server.Allow* (immutable after construction)
    alive,                  \* alive[c]: the transport of connection c is up
    panicked,               \* a goroutine panicked: the process is gone
    bindAddressToListener,  \* Server.bindAddressToListener: key -> listener id
    listeners,              \* every net.Listener bound so far
    greq,                   \* greq[c]: the global requests received on c
    greplies,               \* greplies[c][r]: the Reply calls made on request r
    gtask,                  \* gtask[c][i]: goroutine started by iteration i
    bridges,                \* reverse and direct bridges
    accepted,               \* backend connections accepted so far
    chans                   \* chans[c][j]: channel-open j of c and its handler

vars == <<workload, perm, alive, panicked, bindAddressToListener, listeners, greq,
          greplies, gtask, bridges, accepted, chans>>

\* ---------------------------------------------------------------- helpers
\* strconv.Itoa for the ports of the model
Itoa(n) == ToString(n)

\* net.JoinHostPort
JoinHostPort(host, port) == host \o ":" \o port

\* ssh.Unmarshal into struct{Addr string; Port uint32}: fails on short data
\* and on trailing bytes
UnmarshalAddrPort(p) == p.fmt = "AddrPort"

\* ssh.Unmarshal into struct{SocketPath string}
UnmarshalSocketPath(p) == p.fmt = "Path"

Keys == {JoinHostPort(p.addr, Itoa(p.port)) : p \in TcpipForwardPayloads}
            \cup {p.path : p \in StreamlocalPayloads}

IsOpen(l) == listeners[l].closes = 0

\* net.Listen: a tcp port 0 always finds a free port; any other address is
\* refused while an open listener holds it; every bind may fail in the OS
ListenOutcomes(network, address, port) ==
    IF port # 0 /\ \E l \in DOMAIN listeners :
           /\ listeners[l].net = network
           /\ listeners[l].address = address
           /\ IsOpen(l)
    THEN {FALSE} ELSE {TRUE, FALSE}

\* sync_generics.Map.Store
Store(m, key, ln) == [m EXCEPT ![key] = ln]

\* sync_generics.Map.LoadAndDelete: the map after the call
Delete(m, key) == [m EXCEPT ![key] = NoListener]

\* (*ssh.Request).Reply on global request r of connection c
Reply(c, r, ok) == greplies' = [greplies EXCEPT ![c][r] = Append(@, ok)]

NewTask(kind) == [kind |-> kind, pc |-> "go", req |-> 0, ln |-> NoListener,
                  key |-> "", wd |-> "none"]

AllowAll == [AllowTcpipForward |-> TRUE, AllowDirectTcpip |-> TRUE,
             AllowExecute |-> TRUE, AllowSftp |-> TRUE,
             AllowStreamlocalForward |-> TRUE, AllowDirectStreamlocal |-> TRUE]

\* ---------------------------------------------------------------- Init
InitServer ==
    /\ alive = [c \in Conns |-> TRUE]
    /\ panicked = FALSE
    /\ bindAddressToListener = [k \in Keys |-> NoListener]
    /\ listeners = <<>>
    /\ greq = [c \in Conns |-> <<>>]
    /\ greplies = [c \in Conns |-> <<>>]
    /\ gtask = [c \in Conns |-> <<>>]
    /\ bridges = <<>>
    /\ accepted = 0
    /\ chans = [c \in Conns |-> <<>>]

\* All permissions are allowed when no flag is given (README, Permissions)
Init == InitServer /\ perm = AllowAll /\ workload \in Workloads

InitForward == InitServer /\ perm = AllowAll /\ workload \in ForwardWorkloads

InitChannels == InitServer /\ perm = AllowAll /\ workload \in ChannelWorkloads

Permissions == [DOMAIN AllowAll -> BOOLEAN]

InitPermissions == InitServer /\ perm \in Permissions /\ workload \in Workloads

\* ---------------------------------------------------------------- permissions
\* the permission checks of the dispatchers
NeverDenied == FALSE
\* `if !s.AllowDirectTcpip` (server.go 63)
DirectTcpipDenied == ~perm.AllowDirectTcpip
\* `if !s.AllowDirectStreamlocal` (server.go 69)
DirectStreamlocalDenied == ~perm.AllowDirectStreamlocal
\* `if !s.AllowExecute` of exec (server.go 93)
ExecDenied == ~perm.AllowExecute
\* `if !s.AllowExecute` of pty-req (server.go 106)
PtyReqDenied == ~perm.AllowExecute
\* `if !s.AllowSftp` (server.go 182)
SftpDenied == ~perm.AllowSftp
\* `if !s.AllowTcpipForward` (server.go 316)
TcpipForwardDenied == ~perm.AllowTcpipForward
\* `if !s.AllowStreamlocalForward` (server.go 329)
StreamlocalForwardDenied == ~perm.AllowStreamlocalForward

\* ---------------------------------------------------------------- HandleGlobalRequests
\* One iteration of `for req := range reqs`: the loop variable becomes the
\* request just received (the last element of greq[c]); the cases that do
\* not start a goroutine are handled here.
HandleGlobalRequests(c) ==
    /\ ~panicked /\ alive[c]
    /\ Len(greq[c]) < workload.greqs[c]
    /\ \E r \in GlobalRequestInputs :
        LET gated == \/ r.Type = "tcpip-forward" /\ TcpipForwardDenied
                     \/ r.Type = "streamlocal-forward@openssh.com"
                            /\ StreamlocalForwardDenied
            kind == CASE r.Type = "tcpip-forward" -> "handleTcpipForward"
                      [] r.Type = "cancel-tcpip-forward" -> "cancelTcpipForward"
                      [] r.Type = "streamlocal-forward@openssh.com"
                            -> "handleStreamlocalForward"
                      [] r.Type = "cancel-streamlocal-forward@openssh.com"
                            -> "cancelStreamlocalForward"
                      [] OTHER -> "default"
        IN  /\ greq' = [greq EXCEPT ![c] = Append(@, r)]
            /\ IF gated
               THEN /\ greplies' = [greplies EXCEPT ![c] = Append(@, <<FALSE>>)]
                    /\ gtask' = [gtask EXCEPT ![c] = Append(@, [NewTask("denied") EXCEPT !.pc = "done"])]
               ELSE IF kind = "default"
               THEN /\ greplies' = [greplies EXCEPT ![c] =
                            Append(@, IF r.WantReply THEN <<FALSE>> ELSE <<>>)]
                    /\ gtask' = [gtask EXCEPT ![c] = Append(@, [NewTask("default") EXCEPT !.pc = "done"])]
               ELSE /\ greplies' = [greplies EXCEPT ![c] = Append(@, <<>>)]
                    /\ gtask' = [gtask EXCEPT ![c] = Append(@, NewTask(kind))]
    /\ UNCHANGED <<workload, chans, perm, alive, panicked, bindAddressToListener, listeners,
                   bridges, accepted>>

\* The request a handler goroutine works on.  The closure started by
\* `go func() { s.handle...(sshConn, req) }()` reads the loop variable req
\* when it first runs, which is the request the dispatcher holds then.
LoopVar(c) == Len(greq[c])

SetTask(c, i, t) == gtask' = [gtask EXCEPT ![c][i] = t]

\* ---------------------------------------------------------------- forwards
\* A forward handler from its start to the accept loop: Unmarshal,
\* net.Listen, Store, Reply(true) and the start of the watchdog goroutine
\* (server.go 352-373, 443-463)
ForwardListen(c, i, parsed, network, address, port) ==
    LET t == gtask[c][i]
        r == LoopVar(c)
    IN  IF ~parsed
        THEN /\ Reply(c, r, FALSE)
             /\ SetTask(c, i, [t EXCEPT !.pc = "done", !.req = r])
             /\ UNCHANGED <<listeners, bindAddressToListener>>
        ELSE \E ok \in ListenOutcomes(network, address, port) :
             IF ok
             THEN LET ln == Len(listeners) + 1
                  IN  /\ listeners' = Append(listeners,
                            [conn |-> c, net |-> network, address |-> address,
                             closes |-> 0])
                      /\ bindAddressToListener' = Store(bindAddressToListener, address, ln)
                      /\ Reply(c, r, TRUE)
                      /\ SetTask(c, i, [t EXCEPT !.pc = "accept", !.req = r, !.ln = ln,
                                                 !.key = address, !.wd = "wait"])
             ELSE /\ Reply(c, r, FALSE)
                  /\ SetTask(c, i, [t EXCEPT !.pc = "done", !.req = r])
                  /\ UNCHANGED <<listeners, bindAddressToListener>>

handleTcpipForward(c, i) ==
    /\ ~panicked
    /\ gtask[c][i].kind = "handleTcpipForward" /\ gtask[c][i].pc = "go"
    /\ LET p == greq[c][LoopVar(c)].Payload
       IN  IF UnmarshalAddrPort(p)
           THEN ForwardListen(c, i, TRUE, "tcp", JoinHostPort(p.addr, Itoa(p.port)), p.port)
           ELSE ForwardListen(c, i, FALSE, "tcp", "", 0)
    /\ UNCHANGED <<workload, chans, perm, alive, panicked, greq, bridges, accepted>>

handleStreamlocalForward(c, i) ==
    /\ ~panicked
    /\ gtask[c][i].kind = "handleStreamlocalForward" /\ gtask[c][i].pc = "go"
    /\ LET p == greq[c][LoopVar(c)].Payload
       IN  IF UnmarshalSocketPath(p)
           THEN ForwardListen(c, i, TRUE, "unix", p.path, 1)
           ELSE ForwardListen(c, i, FALSE, "unix", "", 1)
    /\ UNCHANGED <<workload, chans, perm, alive, panicked, greq, bridges, accepted>>

WatchdogIdle(c, i) ==
    /\ ~panicked
    /\ gtask[c][i].wd = "wait"
    /\ ~alive[c]
    /\ SetTask(c, i, [gtask[c][i] EXCEPT !.wd = "done"])
    /\ UNCHANGED <<workload, chans, perm, alive, panicked, bindAddressToListener, listeners,
                   greq, greplies, bridges, accepted>>

\* The watchdog goroutine: sshConn.Wait() returns once the transport is
\* gone, then ln.Close() (server.go 369-373, 459-463)
Watchdog(c, i) ==
    /\ ~panicked
    /\ gtask[c][i].wd = "wait"
    /\ ~alive[c]
    /\ listeners' = [listeners EXCEPT ![gtask[c][i].ln].closes = @ + 1]
    /\ SetTask(c, i, [gtask[c][i] EXCEPT !.wd = "done"])
    /\ UNCHANGED <<workload, chans, perm, alive, panicked, bindAddressToListener, greq, greplies,
                   bridges, accepted>>

NewBridge(kind, c, i, pc) ==
    [kind |-> kind, conn |-> c, owner |-> i, pc |-> pc, copies |-> {},
     onceDone |-> FALSE, closerRuns |-> 0, connCloses |-> 0, chanCloses |-> 0]

\* ln.Accept() returns a backend connection and the handler starts the
\* goroutine that opens the reverse channel (server.go 375-397, 465-477)
ForwardAccept(c, i, chanType) ==
    /\ IsOpen(gtask[c][i].ln)
    /\ accepted < workload.accepts
    /\ accepted' = accepted + 1
    /\ bridges' = Append(bridges, NewBridge(chanType, c, i, "open"))

handleTcpipForward_Accept(c, i) ==
    /\ ~panicked
    /\ gtask[c][i].kind = "handleTcpipForward" /\ gtask[c][i].pc = "accept"
    /\ ForwardAccept(c, i, "forwarded-tcpip")
    /\ UNCHANGED <<workload, chans, perm, alive, panicked, bindAddressToListener, listeners, greq,
                   greplies, gtask>>

handleStreamlocalForward_Accept(c, i) ==
    /\ ~panicked
    /\ gtask[c][i].kind = "handleStreamlocalForward" /\ gtask[c][i].pc = "accept"
    /\ ForwardAccept(c, i, "forwarded-streamlocal@openssh.com")
    /\ UNCHANGED <<workload, chans, perm, alive, panicked, bindAddressToListener, listeners, greq,
                   greplies, gtask>>

\* ln.Accept() fails once the listener is closed: the accept loop returns
\* (server.go 376-379, 466-469)
ForwardAcceptError(c, i) ==
    /\ ~panicked
    /\ gtask[c][i].kind \in {"handleTcpipForward", "handleStreamlocalForward"}
    /\ gtask[c][i].pc = "accept"
    /\ ~IsOpen(gtask[c][i].ln)
    /\ SetTask(c, i, [gtask[c][i] EXCEPT !.pc = "done"])
    /\ UNCHANGED <<workload, chans, perm, alive, panicked, bindAddressToListener, listeners, greq,
                   greplies, bridges, accepted>>

\* sshConn.OpenChannel of a reverse bridge; on failure the forward request
\* is replied to again and the backend connection is closed
\* (server.go 398-404, 478-484)
ReverseOpenChannel(b) ==
    /\ ~panicked
    /\ bridges[b].kind \in {"forwarded-tcpip", "forwarded-streamlocal@openssh.com"}
    /\ bridges[b].pc = "open"
    /\ \E ok \in (IF alive[bridges[b].conn] THEN {TRUE, FALSE} ELSE {FALSE}) :
        IF ok
        THEN /\ bridges' = [bridges EXCEPT ![b].pc = "bridge",
                                           ![b].copies = {"toChannel", "toConn"}]
             /\ UNCHANGED greplies
        ELSE /\ bridges' = [bridges EXCEPT ![b].pc = "failed", ![b].connCloses = @ + 1]
             /\ Reply(bridges[b].conn, gtask[bridges[b].conn][bridges[b].owner].req, FALSE)
    /\ UNCHANGED <<workload, chans, perm, alive, panicked, bindAddressToListener, listeners, greq,
                   gtask, accepted>>

\* One copy goroutine of a reverse bridge ends: io.Copy returns, then
\* conn.Close() and channel.Close() (server.go 405-414, 485-494)
ReverseCopyEnd(b, dir) ==
    /\ ~panicked
    /\ bridges[b].kind \in {"forwarded-tcpip", "forwarded-streamlocal@openssh.com"}
    /\ dir \in bridges[b].copies
    /\ bridges' = [bridges EXCEPT ![b].copies = @ \ {dir},
                                  ![b].connCloses = @ + 1,
                                  ![b].chanCloses = @ + 1,
                                  ![b].closerRuns = @ + 1]
    /\ UNCHANGED <<workload, chans, perm, alive, panicked, bindAddressToListener, listeners, greq,
                   greplies, gtask, accepted>>

\* ---------------------------------------------------------------- cancels
\* ln.Close() of a cancel handler on the listener it took; a failed close
\* (the listener was closed before) is answered false (server.go 435-438,
\* 514-517)
CancelCloseSkipped(c, i, r, ln, key) ==
    /\ UNCHANGED <<listeners, greplies>>
    /\ SetTask(c, i, [gtask[c][i] EXCEPT !.pc = "reply", !.req = r, !.ln = ln,
                                         !.key = key])

CancelClose(c, i, r, ln, key) ==
    /\ listeners' = [listeners EXCEPT ![ln].closes = @ + 1]
    /\ IF IsOpen(ln) THEN UNCHANGED greplies ELSE Reply(c, r, FALSE)
    /\ SetTask(c, i, [gtask[c][i] EXCEPT !.pc = "reply", !.req = r, !.ln = ln,
                                         !.key = key])

\* the final req.Reply(true, nil) (server.go 439, 518)
CancelReply(c, i) ==
    /\ Reply(c, gtask[c][i].req, TRUE)
    /\ SetTask(c, i, [gtask[c][i] EXCEPT !.pc = "done"])

\* cancelTcpipForward up to its last statement (server.go 420-438).  When
\* the key is not loaded the handler replies false and goes on to
\* ln.Close() with a nil listener (line 435), which panics.
cancelTcpipForward(c, i) ==
    /\ ~panicked
    /\ gtask[c][i].kind = "cancelTcpipForward" /\ gtask[c][i].pc = "go"
    /\ LET t == gtask[c][i]
           r == LoopVar(c)
           p == greq[c][r].Payload
       IN  IF ~UnmarshalAddrPort(p)
           THEN /\ Reply(c, r, FALSE)
                /\ SetTask(c, i, [t EXCEPT !.pc = "done", !.req = r])
                /\ UNCHANGED <<bindAddressToListener, listeners, panicked>>
           ELSE LET address == JoinHostPort(p.addr, Itoa(p.port))
                    ln == bindAddressToListener[address]
                IN  /\ bindAddressToListener' = Delete(bindAddressToListener, address)
                    /\ IF ln = NoListener
                       THEN /\ Reply(c, r, FALSE)
                            /\ SetTask(c, i, [t EXCEPT !.pc = "panic", !.req = r,
                                                       !.key = address])
                            /\ panicked' = TRUE
                            /\ UNCHANGED listeners
                       ELSE /\ CancelClose(c, i, r, ln, address)
                            /\ UNCHANGED panicked
    /\ UNCHANGED <<workload, chans, perm, alive, greq, bridges, accepted>>

cancelTcpipForward_Reply(c, i) ==
    /\ ~panicked
    /\ gtask[c][i].kind = "cancelTcpipForward" /\ gtask[c][i].pc = "reply"
    /\ CancelReply(c, i)
    /\ UNCHANGED <<workload, chans, perm, alive, panicked, bindAddressToListener,
                   listeners, greq, bridges, accepted>>

\* cancelStreamlocalForward up to its last statement (server.go 499-517)
cancelStreamlocalForward(c, i) ==
    /\ ~panicked
    /\ gtask[c][i].kind = "cancelStreamlocalForward" /\ gtask[c][i].pc = "go"
    /\ LET t == gtask[c][i]
           r == LoopVar(c)
           p == greq[c][r].Payload
       IN  IF ~UnmarshalSocketPath(p)
           THEN /\ Reply(c, r, FALSE)
                /\ SetTask(c, i, [t EXCEPT !.pc = "done", !.req = r])
                /\ UNCHANGED <<bindAddressToListener, listeners>>
           ELSE LET ln == bindAddressToListener[p.path]
                IN  /\ bindAddressToListener' = Delete(bindAddressToListener, p.path)
                    /\ IF ln = NoListener
                       THEN /\ Reply(c, r, FALSE)
                            /\ SetTask(c, i, [t EXCEPT !.pc = "done", !.req = r,
                                                       !.key = p.path])
                            /\ UNCHANGED listeners
                       ELSE CancelClose(c, i, r, ln, p.path)
    /\ UNCHANGED <<workload, chans, perm, alive, panicked, greq, bridges, accepted>>

cancelStreamlocalForward_Reply(c, i) ==
    /\ ~panicked
    /\ gtask[c][i].kind = "cancelStreamlocalForward" /\ gtask[c][i].pc = "reply"
    /\ CancelReply(c, i)
    /\ UNCHANGED <<workload, chans, perm, alive, panicked, bindAddressToListener,
                   listeners, greq, bridges, accepted>>

\* ---------------------------------------------------------------- transport
\* The transport of connection c goes away: sshConn.Wait() returns and the
\* two request streams are closed.
Disconnect(c) ==
    /\ ~panicked
    /\ alive[c]
    /\ alive' = [alive EXCEPT ![c] = FALSE]
    /\ UNCHANGED <<workload, chans, perm, panicked, bindAddressToListener, listeners, greq, greplies,
                   gtask, bridges, accepted>>

GlobalTaskStep(c, i) ==
    \/ handleTcpipForward(c, i)
    \/ handleTcpipForward_Accept(c, i)
    \/ handleStreamlocalForward(c, i)
    \/ handleStreamlocalForward_Accept(c, i)
    \/ ForwardAcceptError(c, i)
    \/ Watchdog(c, i)
    \/ cancelTcpipForward(c, i)
    \/ cancelTcpipForward_Reply(c, i)
    \/ cancelStreamlocalForward(c, i)
    \/ cancelStreamlocalForward_Reply(c, i)

FwdNext ==
    \/ \E c \in Conns : HandleGlobalRequests(c)
    \/ \E c \in Conns : \E i \in DOMAIN gtask[c] : GlobalTaskStep(c, i)
    \/ \E b \in DOMAIN bridges : ReverseOpenChannel(b)
    \/ \E b \in DOMAIN bridges : \E dir \in {"toChannel", "toConn"} : ReverseCopyEnd(b, dir)
    \/ \E c \in Conns : Disconnect(c)

\* ---------------------------------------------------------------- HandleChannels
fwdVars == <<bindAddressToListener, listeners, greq, greplies, gtask, accepted>>

RECURSIVE SumReqs(_)
SumReqs(chs) == IF chs = <<>> THEN 0 ELSE Len(Head(chs).reqs) + SumReqs(Tail(chs))

TotalSessionReqs == SumReqs(chans["c1"]) + SumReqs(chans["c2"])

NewChannel(open) ==
    [Type |-> open.Type, Extra |-> open.Extra, pc |-> "go", accepted |-> FALSE,
     rejected |-> "", closes |-> 0, dialed |-> FALSE, shf |-> FALSE, ptys |-> 0,
     reqs |-> <<>>, log |-> <<>>, spawned |-> 0, proc |-> "none", exitCode |-> 0,
     pipe |-> 0, produced |-> 0, delivered |-> 0, pipeClosed |-> FALSE]

HandleChannelsInline(c) ==
    /\ ~panicked /\ alive[c]
    /\ Len(chans[c]) < workload.chans[c]
    /\ \A j \in DOMAIN chans[c] : chans[c][j].pc \in {"done", "panic"}
    /\ \E open \in ChannelOpenInputs :
        chans' = [chans EXCEPT ![c] = Append(@, NewChannel(open))]
    /\ UNCHANGED <<workload, perm, alive, panicked, bridges, bindAddressToListener,
                   listeners, greq, greplies, gtask, accepted>>

\* `for newChannel := range chans { go s.handleChannel(shell, newChannel) }`:
\* the channel is an argument of the go statement, so each goroutine gets
\* its own (server.go 51-56)
HandleChannels(c) ==
    /\ ~panicked /\ alive[c]
    /\ Len(chans[c]) < workload.chans[c]
    /\ \E open \in ChannelOpenInputs :
        chans' = [chans EXCEPT ![c] = Append(@, NewChannel(open))]
    /\ UNCHANGED <<workload, perm, alive, panicked, bridges>>
    /\ UNCHANGED fwdVars

\* ssh.Unmarshal of the direct-tcpip and direct-streamlocal extra data
UnmarshalDirectTcpip(p) == p.fmt = "DirectTcpip"
UnmarshalDirectStreamlocal(p) == p.fmt = "DirectStreamlocal"

\* newChannel.Accept(): fails once the transport is gone
AcceptOutcome(c) == alive[c]

\* handleDirectTcpip and handleDirectStreamlocal up to the dial
\* (server.go 206-222, 245-261)
DirectAccept(c, ch, parsed) ==
    IF ~parsed THEN [ch EXCEPT !.pc = "done"]
    ELSE IF ~AcceptOutcome(c) THEN [ch EXCEPT !.pc = "done"]
    ELSE [ch EXCEPT !.pc = "dial", !.accepted = TRUE]

\* handleChannel: the switch on the channel type, and the handler it calls
\* up to its first blocking call (server.go 58-87)
handleChannel(c, j) ==
    /\ ~panicked
    /\ chans[c][j].pc = "go"
    /\ LET ch == chans[c][j]
           next ==
             CASE ch.Type = "session" ->
                    IF AcceptOutcome(c)
                    THEN [ch EXCEPT !.pc = "loop", !.accepted = TRUE]
                    ELSE [ch EXCEPT !.pc = "done"]
               [] ch.Type = "direct-tcpip" ->
                    IF DirectTcpipDenied
                    THEN [ch EXCEPT !.pc = "done", !.rejected = "Prohibited"]
                    ELSE DirectAccept(c, ch, UnmarshalDirectTcpip(ch.Extra))
               [] ch.Type = "direct-streamlocal@openssh.com" ->
                    IF DirectStreamlocalDenied
                    THEN [ch EXCEPT !.pc = "done", !.rejected = "Prohibited"]
                    ELSE DirectAccept(c, ch, UnmarshalDirectStreamlocal(ch.Extra))
               [] OTHER -> [ch EXCEPT !.pc = "done", !.rejected = "UnknownChannelType"]
       IN  chans' = [chans EXCEPT ![c][j] = next]
    /\ UNCHANGED <<workload, perm, alive, panicked, bridges>>
    /\ UNCHANGED fwdVars

\* ---------------------------------------------------------------- direct forwarding
\* net.Dial of a direct handler: on failure the channel is closed, on
\* success the bridge starts (server.go 223-235, 262-273)
DirectDial(c, j) ==
    /\ ~panicked
    /\ chans[c][j].pc = "dial"
    /\ \E ok \in BOOLEAN :
        IF ok
        THEN /\ chans' = [chans EXCEPT ![c][j].pc = "bridge", ![c][j].dialed = TRUE]
             /\ bridges' = Append(bridges,
                    [NewBridge(chans[c][j].Type, c, j, "bridge")
                        EXCEPT !.copies = {"toChannel", "toConn"}])
        ELSE /\ chans' = [chans EXCEPT ![c][j].pc = "done", ![c][j].closes = @ + 1]
             /\ UNCHANGED bridges
    /\ UNCHANGED <<workload, perm, alive, panicked>>
    /\ UNCHANGED fwdVars

\* closeOnce.Do(closer) (server.go 230-234, 268-272)
CloseOnce(br) ==
    IF br.onceDone THEN br
    ELSE [br EXCEPT !.onceDone = TRUE, !.closerRuns = @ + 1,
                    !.chanCloses = @ + 1, !.connCloses = @ + 1]

\* One copy direction of a direct bridge ends and runs closeOnce.Do(closer);
\* the handler returns when its own copy (toConn) has done so
\* (server.go 235-241, 273-279)
DirectCopyEnd(b, dir) ==
    /\ ~panicked
    /\ bridges[b].kind \in {"direct-tcpip", "direct-streamlocal@openssh.com"}
    /\ dir \in bridges[b].copies
    /\ bridges' = [bridges EXCEPT ![b] = [CloseOnce(@) EXCEPT !.copies = @ \ {dir}]]
    /\ LET c == bridges[b].conn
           j == bridges[b].owner
       IN  chans' = [chans EXCEPT ![c][j].closes =
                        IF bridges[b].onceDone THEN @ ELSE @ + 1,
                                  ![c][j].pc = IF dir = "toConn" THEN "done" ELSE @]
    /\ UNCHANGED <<workload, perm, alive, panicked>>
    /\ UNCHANGED fwdVars

\* ---------------------------------------------------------------- sessions
\* ssh.Unmarshal into struct{Command string}
UnmarshalCommand(p) == p.fmt = "Command"

IsSpace(r) == r = " "

\* shellwords.Parse (server.go 143): whitespace splits words, single quotes
\* group, a backslash escapes the next character; an unterminated quote or
\* escape is an error
RECURSIVE ShellwordsScan(_, _, _, _, _, _)
ShellwordsScan(line, args, buf, got, escaped, singleQuoted) ==
    IF line = <<>>
    THEN [args |-> IF got THEN Append(args, buf) ELSE args,
          err |-> escaped \/ singleQuoted]
    ELSE LET r == Head(line)
             rest == Tail(line)
         IN  IF escaped
             THEN ShellwordsScan(rest, args, Append(buf, r), TRUE, FALSE, singleQuoted)
             ELSE IF r = "\\"
             THEN IF singleQuoted
                  THEN ShellwordsScan(rest, args, Append(buf, r), got, FALSE, TRUE)
                  ELSE ShellwordsScan(rest, args, buf, got, TRUE, FALSE)
             ELSE IF IsSpace(r)
             THEN IF singleQuoted
                  THEN ShellwordsScan(rest, args, Append(buf, r), got, FALSE, TRUE)
                  ELSE IF got
                  THEN ShellwordsScan(rest, Append(args, buf), <<>>, FALSE, FALSE, FALSE)
                  ELSE ShellwordsScan(rest, args, buf, got, FALSE, FALSE)
             ELSE IF r = "'"
             THEN ShellwordsScan(rest, args, buf, got \/ singleQuoted, FALSE, ~singleQuoted)
             ELSE ShellwordsScan(rest, args, Append(buf, r), TRUE, FALSE, singleQuoted)

ShellwordsParse(line) == ShellwordsScan(line, <<>>, <<>>, FALSE, FALSE, FALSE)

\* uint32(exitCode) (server.go 171), as the pair of its 16-bit halves
\* <<high, low>>: uint32(-1) is <<65535, 65535>>
Uint32(n) == <<(n \div 65536) % 65536, n % 65536>>

\* req.Reply on request k of a session channel
SessionReply(ch, k, ok) ==
    [ch EXCEPT !.log = Append(@, [ev |-> "reply", req |-> k, ok |-> ok])]

Outcome(ch, panic) == [ch |-> ch, panic |-> panic]

\* A goroutine panics: the Go runtime ends the process
Panic(ch) == Outcome([ch EXCEPT !.pc = "panic"], TRUE)

\* handleExecRequest up to cmd.Run() (server.go 135-163)
handleExecRequest(ch, k, r) ==
    IF ~UnmarshalCommand(r.Payload) THEN {Outcome(ch, FALSE)}
    ELSE LET parsed == ShellwordsParse(r.Payload.command)
         IN  IF parsed.err THEN {Outcome(ch, FALSE)}
             ELSE IF Len(parsed.args) = 0 THEN {Panic(ch)}
             ELSE {Outcome(ch, FALSE),
                   Outcome([SessionReply(ch, k, TRUE) EXCEPT
                                !.pc = "run", !.proc = "none", !.exitCode = 0,
                                !.pipe = 0, !.produced = 0, !.delivered = 0,
                                !.pipeClosed = FALSE],
                           FALSE)}

\* createPty (pty_related_unsupported.go 13-15 always fails; the pty build
\* allocates a pty and starts the shell, or fails)
createPty == {TRUE, FALSE}

\* handleSessionSubSystem up to Serve (server.go 176-192)
handleSessionSubSystem(ch, k, r) ==
    IF r.Payload.fmt # "Name" THEN {Panic(ch)}
    ELSE IF r.Payload.name # "sftp" THEN {Outcome(SessionReply(ch, k, FALSE), FALSE)}
    ELSE IF SftpDenied THEN {Outcome(SessionReply(ch, k, FALSE), FALSE)}
    ELSE {Outcome([SessionReply(ch, k, TRUE) EXCEPT !.pc = "sftp"], FALSE)}

\* the switch of handleSession on one request (server.go 91-131)
SessionSwitch(ch, k, r) ==
    CASE r.Type = "exec" ->
            IF ExecDenied
            THEN {Outcome(SessionReply(ch, k, FALSE), FALSE)}
            ELSE handleExecRequest(ch, k, r)
      [] r.Type = "shell" ->
            IF r.Payload.fmt = "Empty"
            THEN {Outcome(SessionReply(ch, k, TRUE), FALSE)}
            ELSE {Outcome(ch, FALSE)}
      [] r.Type = "pty-req" ->
            IF PtyReqDenied
            THEN {Outcome(SessionReply(ch, k, FALSE), FALSE)}
            ELSE IF r.Payload.fmt # "PtyReq" THEN {Panic(ch)}
            ELSE {IF ok
                  THEN Outcome([SessionReply(ch, k, TRUE) EXCEPT
                                    !.shf = TRUE, !.ptys = @ + 1], FALSE)
                  ELSE Outcome([SessionReply(ch, k, FALSE) EXCEPT !.pc = "done"], FALSE)
                  : ok \in createPty}
      [] r.Type = "window-change" ->
            IF r.Payload.fmt # "Dims" THEN {Panic(ch)} ELSE {Outcome(ch, FALSE)}
      [] r.Type = "subsystem" -> handleSessionSubSystem(ch, k, r)
      [] OTHER -> {Outcome(ch, FALSE)}

\* One iteration of `for req := range requests` (server.go 90-132)
handleSession_Request(c, j) ==
    /\ ~panicked /\ alive[c]
    /\ chans[c][j].pc = "loop"
    /\ TotalSessionReqs < workload.sreqs
    /\ \E r \in SessionRequestInputs :
        LET ch == [chans[c][j] EXCEPT !.reqs = Append(@, r)]
        IN  \E out \in SessionSwitch(ch, Len(ch.reqs), r) :
                /\ chans' = [chans EXCEPT ![c][j] = out.ch]
                /\ panicked' = out.panic
    /\ UNCHANGED <<workload, perm, alive, bridges>>
    /\ UNCHANGED fwdVars

\* The request stream of the session is closed (the client closed the
\* channel or the transport is gone): the loop ends and handleSession
\* returns (server.go 132-133)
handleSession_Return(c, j) ==
    /\ ~panicked
    /\ chans[c][j].pc = "loop"
    /\ chans' = [chans EXCEPT ![c][j].pc = "done"]
    /\ UNCHANGED <<workload, perm, alive, panicked, bridges>>
    /\ UNCHANGED fwdVars

\* sftpServer.Serve() returns; on io.EOF sftpServer.Close() closes the
\* channel the server was built on (server.go 197-203)
handleSessionSubSystem_Serve(c, j) ==
    /\ ~panicked
    /\ chans[c][j].pc = "sftp"
    /\ \E eof \in BOOLEAN :
        chans' = [chans EXCEPT ![c][j] =
            IF eof
            THEN [@ EXCEPT !.pc = "loop", !.closes = @ + 1,
                           !.log = Append(@, [ev |-> "close"])]
            ELSE [@ EXCEPT !.pc = "loop"]]
    /\ UNCHANGED <<workload, perm, alive, panicked, bridges>>
    /\ UNCHANGED fwdVars

\* ---------------------------------------------------------------- exec
\* cmd.Run() starts the process; a start error is no ExitError, so the exit
\* code stays 0 (server.go 164-169)
handleExecRequest_Start(c, j) ==
    /\ ~panicked
    /\ chans[c][j].pc = "run"
    /\ LET ch == chans[c][j]
           argv == ShellwordsParse(ch.reqs[Len(ch.reqs)].Payload.command).args
       IN  \E ok \in (IF argv[1] \in Executables THEN {TRUE, FALSE} ELSE {FALSE}) :
            chans' = [chans EXCEPT ![c][j] =
                IF ok THEN [ch EXCEPT !.pc = "wait", !.proc = "running",
                                      !.spawned = @ + 1]
                ELSE [ch EXCEPT !.pc = "exit-status", !.proc = "failed",
                                !.pipeClosed = TRUE]]
    /\ UNCHANGED <<workload, perm, alive, panicked, bridges>>
    /\ UNCHANGED fwdVars

\* the process writes a chunk to its stdout pipe
ProcessWrite(c, j) ==
    /\ ~panicked
    /\ chans[c][j].proc = "running"
    /\ chans[c][j].produced < MaxOutput
    /\ chans' = [chans EXCEPT ![c][j].produced = @ + 1, ![c][j].pipe = @ + 1]
    /\ UNCHANGED <<workload, perm, alive, panicked, bridges>>
    /\ UNCHANGED fwdVars

\* the process exits
ProcessExit(c, j) ==
    /\ ~panicked
    /\ chans[c][j].proc = "running"
    /\ \E code \in ExitCodes :
        chans' = [chans EXCEPT ![c][j].proc = "exited", ![c][j].exitCode = code]
    /\ UNCHANGED <<workload, perm, alive, panicked, bridges>>
    /\ UNCHANGED fwdVars

\* `go io.Copy(connection, stdout)` moves one chunk from the pipe to the
\* channel; the write fails once the channel is closed (server.go 161)
CopyStdout(c, j) ==
    /\ ~panicked
    /\ chans[c][j].pipe > 0
    /\ ~chans[c][j].pipeClosed
    /\ chans' = [chans EXCEPT ![c][j] =
            IF @.closes = 0
            THEN [@ EXCEPT !.pipe = @ - 1, !.delivered = @ + 1,
                           !.log = Append(@, [ev |-> "data"])]
            ELSE [@ EXCEPT !.pipe = @ - 1]]
    /\ UNCHANGED <<workload, perm, alive, panicked, bridges>>
    /\ UNCHANGED fwdVars

\* cmd.Run() returns once the process has exited; Wait closes the read end
\* of the stdout pipe (server.go 165-169)
handleExecRequest_Wait(c, j) ==
    /\ ~panicked
    /\ chans[c][j].pc = "wait"
    /\ chans[c][j].proc = "exited"
    /\ chans' = [chans EXCEPT ![c][j].pc = "exit-status", ![c][j].pipeClosed = TRUE]
    /\ UNCHANGED <<workload, perm, alive, panicked, bridges>>
    /\ UNCHANGED fwdVars

\* connection.SendRequest("exit-status", false, ...): nothing is sent on a
\* channel that is already closed (server.go 170-172)
SendExitStatus(ch) ==
    [ch EXCEPT !.pc = "close",
               !.log = Append(@, [ev |-> "exit-status", WantReply |-> FALSE,
                                  status |-> Uint32(ch.exitCode),
                                  sent |-> ch.closes = 0])]

handleExecRequest_ExitStatus(c, j) ==
    /\ ~panicked
    /\ chans[c][j].pc = "exit-status"
    /\ chans' = [chans EXCEPT ![c][j] = SendExitStatus(@)]
    /\ UNCHANGED <<workload, perm, alive, panicked, bridges>>
    /\ UNCHANGED fwdVars

\* connection.Close(), then back to the request loop (server.go 173)
handleExecRequest_Close(c, j) ==
    /\ ~panicked
    /\ chans[c][j].pc = "close"
    /\ chans' = [chans EXCEPT ![c][j].pc = "loop", ![c][j].closes = @ + 1,
                              ![c][j].log = Append(@, [ev |-> "close"])]
    /\ UNCHANGED <<workload, perm, alive, panicked, bridges>>
    /\ UNCHANGED fwdVars

ChannelStep(c, j) ==
    \/ handleChannel(c, j)
    \/ DirectDial(c, j)
    \/ handleSession_Request(c, j)
    \/ handleSession_Return(c, j)
    \/ handleSessionSubSystem_Serve(c, j)
    \/ handleExecRequest_Start(c, j)
    \/ ProcessWrite(c, j)
    \/ ProcessExit(c, j)
    \/ CopyStdout(c, j)
    \/ handleExecRequest_Wait(c, j)
    \/ handleExecRequest_ExitStatus(c, j)
    \/ handleExecRequest_Close(c, j)

ChanNext ==
    \/ \E c \in Conns : Disconnect(c)
    \/ \E c \in Conns : HandleChannels(c)
    \/ \E c \in Conns : \E j \in DOMAIN chans[c] : ChannelStep(c, j)
    \/ \E b \in DOMAIN bridges : \E dir \in {"toChannel", "toConn"} : DirectCopyEnd(b, dir)

Next == FwdNext \/ ChanNext

Spec == Init /\ [][Next]_vars

SpecForward == InitForward /\ [][FwdNext]_vars

SpecChannels == InitChannels /\ [][ChanNext]_vars

SpecPermissions == InitPermissions /\ [][Next]_vars

\* ---------------------------------------------------------------- forwards without inbound connections
\* The forward and cancel handlers alone: no connection ever arrives at a
\* listener, so an accept loop ends only when its listener is closed.
CancelWorkloads ==
    {Workload(MaxGlobalReqs, 0, 0, 0, 0, 0),
     Workload(MaxGlobalReqs - 1, 1, 0, 0, 0, 0)}

InitCancel == InitServer /\ perm = AllowAll /\ workload \in CancelWorkloads

CancelTaskStep(c, i) ==
    \/ handleTcpipForward(c, i)
    \/ handleStreamlocalForward(c, i)
    \/ ForwardAcceptError(c, i)
    \/ Watchdog(c, i)
    \/ cancelTcpipForward(c, i)
    \/ cancelTcpipForward_Reply(c, i)
    \/ cancelStreamlocalForward(c, i)
    \/ cancelStreamlocalForward_Reply(c, i)

CancelNext ==
    \/ \E c \in Conns : HandleGlobalRequests(c)
    \/ \E c \in Conns : \E i \in DOMAIN gtask[c] : CancelTaskStep(c, i)
    \/ \E c \in Conns : Disconnect(c)

SpecCancel == InitCancel /\ [][CancelNext]_vars

\* ---------------------------------------------------------------- dispatchers with several items
\* Either stream carries more items than one handler takes: the global
\* requests of one connection, or one channel more than MaxChannels.
DispatchWorkloads ==
    {Workload(MaxGlobalReqs, 0, 0, 0, 0, 0),
     Workload(0, 0, 0, MaxChannels + 1, 0, 1)}

InitDispatch == InitServer /\ perm = AllowAll /\ workload \in DispatchWorkloads

DispatchNext == CancelNext \/ ChanNext

SpecDispatch == InitDispatch /\ [][DispatchNext]_vars

\* ---------------------------------------------------------------- scheduling
\* The Go scheduler runs every runnable goroutine: a handler goroutine and
\* its watchdog are not starved.  What the clients send and when the
\* transport goes away is not constrained.
Fairness ==
    \A c \in Conns : \A i \in 1..MaxGlobalReqs :
        WF_vars(i \in DOMAIN gtask[c] /\ CancelTaskStep(c, i))

SpecTeardown == InitCancel /\ [][CancelNext]_vars /\ Fairness

\* ================================================================ claims
CancelKinds == {"cancelTcpipForward", "cancelStreamlocalForward"}

\* the oks of the Reply calls made on request k of a session channel
RepliesTo(ch, k) ==
    LET sel == SelectSeq(ch.log, LAMBDA e : e.ev = "reply" /\ e.req = k)
    IN  [n \in 1..Len(sel) |-> sel[n].ok]

AllFalse(replies) ==
    /\ replies # <<>>
    /\ \A n \in DOMAIN replies : replies[n] = FALSE

\* a direct channel type that is denied: rejected "Prohibited", never
\* accepted, nothing dialed, nothing bridged
DirectGated(type) ==
    /\ \A c \in Conns : \A j \in DOMAIN chans[c] :
        chans[c][j].Type = type =>
            /\ ~chans[c][j].accepted
            /\ ~chans[c][j].dialed
            /\ chans[c][j].closes = 0
            /\ chans[c][j].pc # "go" => chans[c][j].rejected = "Prohibited"
    /\ \A b \in DOMAIN bridges : bridges[b].kind # type

\* a forward request type that is denied: answered false, no listener of
\* its network bound or stored, no handler started
ForwardGated(type, network, kind) ==
    /\ \A c \in Conns : \A r \in DOMAIN greq[c] :
        greq[c][r].Type = type => AllFalse(greplies[c][r])
    /\ \A l \in DOMAIN listeners : listeners[l].net # network
    /\ \A k \in Keys : bindAddressToListener[k] # NoListener =>
            listeners[bindAddressToListener[k]].net # network
    /\ \A c \in Conns : \A i \in DOMAIN gtask[c] : gtask[c][i].kind # kind

\* C1: for each of the six permission flags, while the flag is false its
\* gated operation is rejected with the documented outcome (channel-opens
\* rejected "Prohibited", requests answered false) and has no side effect:
\* no listener bound or stored, no backend dialed, no channel accepted for
\* the direct types, no process or pty spawned, no sftp server started.
C1_PermissionGating ==
    /\ ~perm.AllowDirectTcpip => DirectGated("direct-tcpip")
    /\ ~perm.AllowDirectStreamlocal => DirectGated("direct-streamlocal@openssh.com")
    /\ ~perm.AllowExecute =>
        \A c \in Conns : \A j \in DOMAIN chans[c] :
            LET ch == chans[c][j]
            IN  /\ ch.spawned = 0 /\ ch.proc = "none"
                /\ ch.ptys = 0 /\ ~ch.shf
                /\ \A k \in DOMAIN ch.reqs :
                    ch.reqs[k].Type \in {"exec", "pty-req"} =>
                        RepliesTo(ch, k) = <<FALSE>>
    /\ ~perm.AllowSftp =>
        \A c \in Conns : \A j \in DOMAIN chans[c] :
            LET ch == chans[c][j]
            IN  /\ ch.pc # "sftp"
                /\ \A k \in DOMAIN ch.reqs :
                    (ch.reqs[k].Type = "subsystem" /\ ch.reqs[k].Payload = NamePayload("sftp"))
                        => RepliesTo(ch, k) = <<FALSE>>
    /\ ~perm.AllowTcpipForward =>
        ForwardGated("tcpip-forward", "tcp", "handleTcpipForward")
    /\ ~perm.AllowStreamlocalForward =>
        ForwardGated("streamlocal-forward@openssh.com", "unix", "handleStreamlocalForward")

\* C1 witness: with tcpip-forward and execute both denied, a well-formed
\* tcpip-forward request and a well-formed exec request have been rejected.
C1_Witness ==
    /\ ~perm.AllowTcpipForward /\ ~perm.AllowExecute
    /\ \E c \in Conns : \E r \in DOMAIN greq[c] :
        /\ greq[c][r].Type = "tcpip-forward"
        /\ greq[c][r].Payload \in TcpipForwardPayloads
        /\ greplies[c][r] = <<FALSE>>
    /\ \E c \in Conns : \E j \in DOMAIN chans[c] : \E k \in DOMAIN chans[c][j].reqs :
        /\ chans[c][j].reqs[k].Type = "exec"
        /\ chans[c][j].reqs[k].Payload = CommandPayload(<<"e">>)
        /\ RepliesTo(chans[c][j], k) = <<FALSE>>

\* C2: a cancel request whose key is not in the forward registry is
\* answered false and its handler returns normally, with no further effect.
C2_CancelUnregisteredReturns ==
    \A c \in Conns : \A i \in DOMAIN gtask[c] :
        LET t == gtask[c][i]
        IN  (t.kind \in CancelKinds /\ t.pc # "go" /\ t.key # "" /\ t.ln = NoListener)
                => /\ t.pc = "done"
                   /\ greplies[c][t.req] # <<>>
                   /\ greplies[c][t.req][Len(greplies[c][t.req])] = FALSE

\* C3: a cancel handler that found its key in the registry has removed the
\* entry and closed that listener before it replies true: whenever its
\* reply true has been made, the listener is closed and no longer
\* registered.
C3_CloseBeforeReplyTrue ==
    \A c \in Conns : \A i \in DOMAIN gtask[c] :
        LET t == gtask[c][i]
        IN  (t.kind \in CancelKinds /\ t.pc = "done" /\ t.ln # NoListener)
                => /\ ~IsOpen(t.ln)
                   /\ bindAddressToListener[t.key] # t.ln
                   /\ TRUE \in {greplies[c][t.req][n] : n \in DOMAIN greplies[c][t.req]}

\* C3 witness: a cancel handler took a registered listener and has replied
\* true.
C3_Witness ==
    \E c \in Conns : \E i \in DOMAIN gtask[c] :
        /\ gtask[c][i].kind \in CancelKinds
        /\ gtask[c][i].pc = "done"
        /\ gtask[c][i].ln # NoListener

\* C4: Close is invoked on a given listener at most once, whatever the
\* interleaving of a cancel handler and the forward's watchdog.
C4_ListenerClosedAtMostOnce ==
    \A l \in DOMAIN listeners : listeners[l].closes <= 1

\* C5: for every bridge, direct or reverse, the close of the pair
\* {channel, backend connection} runs exactly once when a copy direction
\* has ended, and never more than once.
C5_BridgeCloseOnce ==
    \A b \in DOMAIN bridges :
        /\ bridges[b].closerRuns <= 1
        /\ (bridges[b].pc = "bridge" /\ bridges[b].copies # {"toChannel", "toConn"})
                => bridges[b].closerRuns = 1

\* nothing is left to run: both transports are gone and every goroutine of
\* the forwarding side has returned
ForwardingAtRest ==
    /\ ~panicked
    /\ \A c \in Conns : ~alive[c]
    /\ \A c \in Conns : \A i \in DOMAIN gtask[c] :
        gtask[c][i].pc = "done" /\ gtask[c][i].wd # "wait"
    /\ \A b \in DOMAIN bridges : bridges[b].pc # "open" /\ bridges[b].copies = {}

\* C6: after the owning connection terminates, every listener it
\* registered ends up closed and removed from the forward registry: once
\* nothing is left to run, no registry key maps to a listener.
C6_RegistryClearedAfterTeardown ==
    ForwardingAtRest =>
        /\ \A l \in DOMAIN listeners : ~IsOpen(l)
        /\ \A k \in Keys : bindAddressToListener[k] = NoListener

\* C7: a cancel arriving on one connection never takes or closes a
\* listener registered by a forward request of another connection.
C7_RegistryOwnedByConnection ==
    \A c \in Conns : \A i \in DOMAIN gtask[c] :
        (gtask[c][i].kind \in CancelKinds /\ gtask[c][i].ln # NoListener)
            => listeners[gtask[c][i].ln].conn = c

\* C8: after an exec whose process exited with code C, an exit-status
\* request with want_reply=false and status C is sent on the session
\* channel, and it is sent before the session channel is closed.
C8_ExitStatusBeforeClose ==
    \A c \in Conns : \A j \in DOMAIN chans[c] :
        LET ch == chans[c][j]
            n == Len(ch.log)
        IN  (ch.pc = "close" /\ ch.proc = "exited") =>
                /\ ch.log[n].ev = "exit-status"
                /\ ch.log[n].WantReply = FALSE
                /\ ch.log[n].status = Uint32(ch.exitCode)
                /\ ch.log[n].sent
                /\ \A q \in 1..(n - 1) : ch.log[q].ev # "close"

\* C9: for a successful exec the reply true comes first, then the process
\* output, then exit-status, then the close, and no process output is
\* still undelivered when the channel is closed.
C9_ExecEventOrder ==
    \A c \in Conns : \A j \in DOMAIN chans[c] :
        LET ch == chans[c][j]
        IN  /\ \A q \in DOMAIN ch.log :
                ch.log[q].ev = "data" =>
                    /\ \E p \in 1..(q - 1) :
                        /\ ch.log[p].ev = "reply" /\ ch.log[p].ok
                        /\ ch.reqs[ch.log[p].req].Type = "exec"
                    /\ \A p \in 1..(q - 1) : ch.log[p].ev \in {"reply", "data"}
            /\ (ch.closes > 0 /\ ch.proc = "exited") => ch.delivered = ch.produced

\* C10: no client input and no OS failure ends a handling task in a panic;
\* the process stays up and the dispatchers keep serving.
C10_NoFatalError == ~panicked

ForwardTypes == {"tcpip-forward", "streamlocal-forward@openssh.com"}
CancelTypes == {"cancel-tcpip-forward", "cancel-streamlocal-forward@openssh.com"}
ForwardKinds == {"handleTcpipForward", "handleStreamlocalForward"}

\* every started handler goroutine works on the request it was started for
NoMisread ==
    \A c \in Conns : \A i \in DOMAIN gtask[c] : gtask[c][i].req \in {0, i}

\* C11: a request or channel-open with a payload that does not parse is
\* rejected and not left unanswered: a malformed exec, forward or cancel
\* request is answered false once its handler has returned, and a
\* malformed direct channel-open is rejected with ConnectionFailed.
C11_MalformedRejected ==
    /\ \A c \in Conns : \A j \in DOMAIN chans[c] :
        LET ch == chans[c][j]
        IN  /\ (/\ ch.Type \in {"direct-tcpip", "direct-streamlocal@openssh.com"}
                /\ ch.Extra = EmptyPayload
                /\ ch.pc = "done")
                    => ch.rejected = "ConnectionFailed"
            /\ \A k \in DOMAIN ch.reqs :
                (/\ ch.reqs[k].Type = "exec"
                 /\ ch.reqs[k].Payload = EmptyPayload
                 /\ ch.reqs[k].WantReply)
                    => RepliesTo(ch, k) = <<FALSE>>
    /\ NoMisread =>
        \A c \in Conns : \A i \in DOMAIN gtask[c] :
            (/\ greq[c][i].Type \in ForwardTypes \cup CancelTypes
             /\ greq[c][i].Payload = EmptyPayload
             /\ gtask[c][i].pc = "done")
                => greplies[c][i] = <<FALSE>>

\* C12: for every forward and cancel request, Reply is invoked exactly
\* once over the lifetime of its handler: never twice, and once when the
\* handler and the goroutines it started have finished.
C12_ExactlyOneReply ==
    NoMisread =>
        \A c \in Conns : \A i \in DOMAIN gtask[c] :
            greq[c][i].Type \in ForwardTypes \cup CancelTypes =>
                /\ Len(greplies[c][i]) <= 1
                /\ gtask[c][i].pc = "done" => Len(greplies[c][i]) = 1

\* C13: a listener displaced from the registry by a later store under the
\* same key is closed when it is overwritten, so every open forward
\* listener of a live connection is the registry's entry for its key.
C13_OpenListenerIsRegistered ==
    \A l \in DOMAIN listeners :
        (IsOpen(l) /\ alive[listeners[l].conn])
            => bindAddressToListener[listeners[l].address] = l

\* nothing of the forwards of connection c is left: every forward handler
\* has returned from its accept loop and the listener it bound is closed
\* (a process ended by a panic has neither listeners nor loops)
TornDown(c) ==
    \/ panicked
    \/ \A i \in DOMAIN gtask[c] :
        gtask[c][i].kind \in ForwardKinds =>
            /\ gtask[c][i].pc = "done"
            /\ gtask[c][i].ln # NoListener => ~IsOpen(gtask[c][i].ln)

\* C14: once the transport of a connection is gone, under fair scheduling
\* of the handler and watchdog goroutines every forward listener of that
\* connection is eventually closed and every accept loop on it eventually
\* sees the accept error and returns.
C14_TeardownLiveness ==
    \A c \in Conns : (~alive[c]) ~> TornDown(c)

\* C14 witness: after the disconnect the watchdog alone closed a listener
\* and its accept loop has returned.
C14_Witness ==
    \E c \in Conns : \E i \in DOMAIN gtask[c] :
        /\ ~alive[c] /\ ~panicked
        /\ gtask[c][i].kind \in ForwardKinds
        /\ gtask[c][i].pc = "done"
        /\ gtask[c][i].wd = "done"
        /\ gtask[c][i].ln # NoListener
        /\ listeners[gtask[c][i].ln].closes = 1

\* a handler of connection c is inside a blocking call: the accept loop of
\* a forward, a dial, a running exec or an sftp session
HandlerBlocked(c) ==
    \/ \E i \in DOMAIN gtask[c] : gtask[c][i].pc = "accept"
    \/ \E j \in DOMAIN chans[c] : chans[c][j].pc \in {"dial", "wait", "sftp"}

\* C15: the dispatchers never wait for a handler: as long as the transport
\* is up and a stream has a next item, its dispatcher can take the item
\* and start the handler, whatever the handlers started before are doing.
C15_DispatchNeverBlocks ==
    \A c \in Conns :
        (~panicked /\ alive[c]) =>
            /\ Len(chans[c]) < workload.chans[c] => ENABLED HandleChannels(c)
            /\ Len(greq[c]) < workload.greqs[c] => ENABLED HandleGlobalRequests(c)

\* C15 witness: a channel handler is blocked in a running exec while the
\* channel stream of the same connection has a next channel-open.
C15_Witness ==
    \E c \in Conns :
        /\ ~panicked /\ alive[c]
        /\ \E j \in DOMAIN chans[c] : chans[c][j].pc = "wait"
        /\ HandlerBlocked(c)
        /\ Len(chans[c]) < workload.chans[c]

SessionTypes == {"exec", "shell", "pty-req", "window-change", "subsystem"}

\* the command of request r is well-formed and splits into no word at all
EmptyArgv(r) ==
    /\ UnmarshalCommand(r.Payload)
    /\ ~ShellwordsParse(r.Payload.command).err
    /\ ShellwordsParse(r.Payload.command).args = <<>>

\* C16: an exec request whose command splits into an empty argv is
\* rejected: no process is spawned for it, it is answered false, and the
\* session handler goes on with the next request.
C16_EmptyArgvRejected ==
    \A c \in Conns : \A j \in DOMAIN chans[c] :
        LET ch == chans[c][j]
        IN  \A k \in DOMAIN ch.reqs :
                (ch.reqs[k].Type = "exec" /\ EmptyArgv(ch.reqs[k])) =>
                    /\ RepliesTo(ch, k) = <<FALSE>>
                    /\ ch.pc # "panic"
                    /\ ~panicked

\* C17: when the process of an exec cannot be spawned, the exec request is
\* never answered true, and the session channel is closed once the handler
\* is through.
C17_ExecFailureNoReplyTrue ==
    \A c \in Conns : \A j \in DOMAIN chans[c] :
        LET ch == chans[c][j]
        IN  ch.proc = "failed" =>
                /\ \A n \in DOMAIN RepliesTo(ch, Len(ch.reqs)) :
                        ~RepliesTo(ch, Len(ch.reqs))[n]
                /\ ch.pc \in {"loop", "done"} => ch.closes > 0

\* C18: a session request of an unsupported type with want_reply set is
\* answered false, and the session handler continues.
C18_UnsupportedAnsweredFalse ==
    \A c \in Conns : \A j \in DOMAIN chans[c] :
        LET ch == chans[c][j]
        IN  \A k \in DOMAIN ch.reqs :
                (ch.reqs[k].Type \notin SessionTypes /\ ch.reqs[k].WantReply) =>
                    RepliesTo(ch, k) = <<FALSE>>

\* C19: no session handler returns while leaving its channel open: a
\* session channel that was accepted and whose handler has returned has
\* been closed.
C19_SessionReturnClosesChannel ==
    \A c \in Conns : \A j \in DOMAIN chans[c] :
        (/\ chans[c][j].Type = "session"
         /\ chans[c][j].accepted
         /\ chans[c][j].pc = "done")
            => chans[c][j].closes > 0

\* C20: the handler goroutine started for a global request reads and
\* replies to that same request, whatever the dispatcher loop has moved on
\* to by the time the goroutine runs.
C20_HandlerOwnsRequest ==
    \A c \in Conns : \A i \in DOMAIN gtask[c] :
        (gtask[c][i].kind \in ForwardKinds \cup CancelKinds /\ gtask[c][i].pc # "go")
            => gtask[c][i].req = i
====
